---- MODULE Spec2Model ----
(***************************************************************************)
(* Model of openlane/flows/sequential.py: SequentialFlow.make and          *)
(* SequentialFlow.run.  The run loop is modelled statement by statement    *)
(* (pc is the position in run), the outcome of each step.start() is a      *)
(* nondeterministic choice between a returned State and the two exception  *)
(* classes that run() translates.                                          *)
(***************************************************************************)
EXTENDS Integers, Sequences, FiniteSets, TLC

\* ---------------------------------------------------------------- bounds
MaxSteps == 3

\* ------------------------------------------------------------- universe
None == "None"

\* ids that have an entry in Step.factory
RegisteredIds == {"Yosys.Synthesis", "OpenROAD.Placement", "OpenROAD.Routing"}

\* ids with no entry in Step.factory (and so in no pipeline)
UnregisteredIds == {"Misc.Unknown", "Misc.Other"}

AllIds == RegisteredIds \cup UnregisteredIds

\* display name of a step class, distinct from its id
StepName(id) ==
    CASE id = "Yosys.Synthesis"    -> "Synthesis"
      [] id = "OpenROAD.Placement" -> "Placement"
      [] id = "OpenROAD.Routing"   -> "Routing"
      [] OTHER                     -> "Unknown"

\* the value Step.factory.get returns for an id it does not know (None)
NoClass == [id |-> None, name |-> None]

\* Step.factory.get(name): the step class registered under name, or None
FactoryGet(name) ==
    IF name \in RegisteredIds THEN [id |-> name, name |-> StepName(name)] ELSE NoClass

\* initial states a caller may pass; a State is the sequence of
\* contributions accumulated so far
InitialStates == {<<"S0">>, <<"T0">>}

SeqsUpTo(S, n) == UNION {[1..k -> S] : k \in 0..n}

NoStep == [id |-> None, name |-> None, pos |-> 0]
NoExc  == [class |-> None, msg |-> None]

VARIABLES
    step_ids,        \* argument of make
    Steps,           \* the flow class's Steps (list of step classes)
    initial_state,   \* argument of run
    frm,             \* argument of run
    to,              \* argument of run
    pc,              \* position in make/run
    idx,             \* number of entries of Steps the for loop has taken
    step,            \* the loop's current step instance
    executing,       \* local of run
    state_list,      \* local of run
    step_list,       \* local of run
    new_state,       \* local of run
    exc,             \* exception in flight out of step.start()
    raised,          \* exception that left make/run
    result,          \* value returned by run (<<>> while none)
    max_stage_count, \* progress tracker
    stage,           \* progress tracker: name of the open stage, or None
    ordinal,         \* progress tracker: stage ordinal
    out,             \* log()/success() calls made so far
    flow_name,       \* name attribute of the class make returned
    tracker,         \* history: every start_stage/end_stage call
    invoked          \* history: every step.start() call with its input state

vars == <<step_ids, Steps, initial_state, frm, to, pc, idx, step, executing,
          state_list, step_list, new_state, exc, raised, result,
          max_stage_count, stage, ordinal, out, flow_name, tracker, invoked>>

\* name attribute of CustomSequentialFlow (line 48)
CustomFlowName == "Custom Sequential Flow"

\* a call of the progress tracker
Call(fn, arg) == [fn |-> fn, arg |-> arg]

Last(s) == s[Len(s)]

Msg(fn, text, arg) == [fn |-> fn, text |-> text, arg |-> arg]

\* --------------------------------------------------------------- make
\* variant: the loop of lines 41-45 remembers the last unknown id it met
\* instead of raising at the first
FirstUnknown_Last(ids) ==
    IF \E i \in 1..Len(ids) : FactoryGet(ids[i]) = NoClass
    THEN CHOOSE i \in 1..Len(ids) :
            /\ FactoryGet(ids[i]) = NoClass
            /\ \A j \in (i+1)..Len(ids) : FactoryGet(ids[j]) # NoClass
    ELSE 0

\* position of the first id of ids that the factory does not know, 0 if none
FirstUnknown(ids) ==
    IF \E i \in 1..Len(ids) : FactoryGet(ids[i]) = NoClass
    THEN CHOOSE i \in 1..Len(ids) :
            /\ FactoryGet(ids[i]) = NoClass
            /\ \A j \in 1..(i-1) : FactoryGet(ids[j]) # NoClass
    ELSE 0

\* variant: line 45 inserts at the front of step_list
Resolve_Reversed(ids) == [i \in 1..Len(ids) |-> FactoryGet(ids[Len(ids) + 1 - i])]

\* the step_list that make builds when every id is known
Resolve(ids) == [i \in 1..Len(ids) |-> FactoryGet(ids[i])]

Init ==
    /\ step_ids \in SeqsUpTo(AllIds, MaxSteps)
    /\ initial_state \in InitialStates
    /\ frm \in AllIds \cup {None}
    /\ to \in AllIds \cup {None}
    /\ Steps = <<>>
    /\ pc = "make"
    /\ idx = 0
    /\ step = NoStep
    /\ executing = FALSE
    /\ state_list = <<>>
    /\ step_list = <<>>
    /\ new_state = <<>>
    /\ exc = NoExc
    /\ raised = NoExc
    /\ result = <<>>
    /\ max_stage_count = 0
    /\ stage = None
    /\ ordinal = 0
    /\ out = <<>>
    /\ flow_name = None
    /\ tracker = <<>>
    /\ invoked = <<>>

\* make(step_ids), every id registered: returns CustomSequentialFlow
MakeFlow ==
    /\ pc = "make"
    /\ FirstUnknown(step_ids) = 0
    /\ Steps' = Resolve(step_ids)
    /\ flow_name' = CustomFlowName
    /\ pc' = "ready"
    /\ UNCHANGED <<tracker, step_ids, initial_state, frm, to, idx, step, executing,
                   state_list, step_list, new_state, exc, raised, result,
                   max_stage_count, stage, ordinal, out, invoked>>

\* make(step_ids), some id unknown: raise TypeError
MakeTypeError ==
    /\ pc = "make"
    /\ FirstUnknown(step_ids) # 0
    /\ raised' = [class |-> "TypeError", msg |-> step_ids[FirstUnknown(step_ids)]]
    /\ pc' = "raised"
    /\ UNCHANGED <<flow_name, tracker, step_ids, Steps, initial_state, frm, to, idx, step, executing,
                   state_list, step_list, new_state, exc, result,
                   max_stage_count, stage, ordinal, out, invoked>>

\* ---------------------------------------------------------------- run
\* variant: the test of line 68 inverted
ExecutingAtStart_Inverted(f) == f # None

\* variant: line 68 enables execution whatever frm is
ExecutingAtStart_Always(f) == TRUE

\* executing = frm is None
ExecutingAtStart(f) == f = None

\* variant: lines 72-73 dropped, a matching step never enables execution
FromReached_Never(f, id, e) == e

\* if frm is not None and frm == step.id: executing = True
FromReached(f, id, e) == IF f # None /\ f = id THEN TRUE ELSE e

\* variant: lines 92-93 dropped, a matching step never disables execution
ToReached_Never(t, id, e) == e

\* variant: line 92 without the id comparison
ToReached_AnyStep(t, id, e) == IF t # None THEN FALSE ELSE e

\* if to is not None and to == step.id: executing = False
ToReached(t, id, e) == IF t # None /\ t = id THEN FALSE ELSE e

\* end_stage(no_increment_ordinal): the ordinal after the stage is closed
EndStageOrdinal(ord, no_increment_ordinal) ==
    IF no_increment_ordinal THEN ord ELSE ord + 1

\* the State step.start() reads: the most recent element of the state list
StateIn(states) == Last(states)

\* the State a successful step.start() returns: a new value, the input
\* plus the step's own contribution
StepStart(s, state_in) == Append(state_in, s.id)

\* lines 60-68
RunBegin ==
    /\ pc = "ready"
    /\ max_stage_count' = Len(Steps)
    /\ state_list' = <<initial_state>>
    /\ step_list' = <<>>
    /\ out' = Append(out, Msg("log", "Starting", None))
    /\ executing' = ExecutingAtStart(frm)
    /\ idx' = 0
    /\ pc' = "for"
    /\ UNCHANGED <<flow_name, tracker, step_ids, Steps, initial_state, frm, to, step, new_state,
                   exc, raised, result, stage, ordinal, invoked>>

\* lines 70-75: next class of Steps, instantiate, from check, start_stage
ForNext ==
    /\ pc = "for"
    /\ idx < Len(Steps)
    /\ idx' = idx + 1
    /\ step' = [id |-> Steps[idx + 1].id, name |-> Steps[idx + 1].name,
                pos |-> idx + 1]
    /\ executing' = FromReached(frm, Steps[idx + 1].id, executing)
    /\ tracker' = Append(tracker, Call("start_stage", Steps[idx + 1].name))
    /\ stage' = Steps[idx + 1].name
    /\ pc' = "stage"
    /\ UNCHANGED <<flow_name, step_ids, Steps, initial_state, frm, to, state_list,
                   step_list, new_state, exc, raised, result,
                   max_stage_count, ordinal, out, invoked>>

\* line 70: Steps exhausted
ForExit ==
    /\ pc = "for"
    /\ idx = Len(Steps)
    /\ pc' = "success"
    /\ UNCHANGED <<flow_name, tracker, step_ids, Steps, initial_state, frm, to, idx, step,
                   executing, state_list, step_list, new_state, exc, raised,
                   result, max_stage_count, stage, ordinal, out, invoked>>

\* variant: line 78 dropped, a skipped step's stage is not closed
Skip_NoEndStage ==
    /\ pc = "stage"
    /\ ~executing
    /\ out' = Append(out, Msg("log", "Skipping step", step.name))
    /\ pc' = "for"
    /\ UNCHANGED <<flow_name, tracker, step_ids, Steps, initial_state, frm, to,
                   idx, step, executing, state_list, step_list, new_state, exc,
                   raised, result, max_stage_count, stage, ordinal, invoked>>

\* variant: line 78 calls end_stage() without no_increment_ordinal
Skip_Incrementing ==
    /\ pc = "stage"
    /\ ~executing
    /\ out' = Append(out, Msg("log", "Skipping step", step.name))
    /\ tracker' = Append(tracker, Call("end_stage", "increment_ordinal"))
    /\ stage' = None
    /\ ordinal' = EndStageOrdinal(ordinal, FALSE)
    /\ pc' = "for"
    /\ UNCHANGED <<flow_name, step_ids, Steps, initial_state, frm, to, idx, step,
                   executing, state_list, step_list, new_state, exc, raised,
                   result, max_stage_count, invoked>>

\* lines 76-79
Skip ==
    /\ pc = "stage"
    /\ ~executing
    /\ out' = Append(out, Msg("log", "Skipping step", step.name))
    /\ tracker' = Append(tracker, Call("end_stage", "no_increment_ordinal"))
    /\ stage' = None
    /\ ordinal' = EndStageOrdinal(ordinal, TRUE)
    /\ pc' = "for"
    /\ UNCHANGED <<flow_name, step_ids, Steps, initial_state, frm, to, idx, step,
                   executing, state_list, step_list, new_state, exc, raised,
                   result, max_stage_count, invoked>>

\* variant: line 81 dropped, the step is not recorded before it is started
AppendStep_NotRecorded ==
    /\ pc = "stage"
    /\ executing
    /\ pc' = "try"
    /\ UNCHANGED <<flow_name, tracker, step_ids, Steps, initial_state, frm, to, idx, step,
                   executing, state_list, step_list, new_state, exc, raised,
                   result, max_stage_count, stage, ordinal, out, invoked>>

\* variant: line 81 reached without the test of line 76
AppendStep_Unconditional ==
    /\ pc = "stage"
    /\ step_list' = Append(step_list, step)
    /\ pc' = "try"
    /\ UNCHANGED <<flow_name, tracker, step_ids, Steps, initial_state, frm, to,
                   idx, step, executing, state_list, new_state, exc, raised,
                   result, max_stage_count, stage, ordinal, out, invoked>>

\* line 81
AppendStep ==
    /\ pc = "stage"
    /\ executing
    /\ step_list' = Append(step_list, step)
    /\ pc' = "try"
    /\ UNCHANGED <<flow_name, tracker, step_ids, Steps, initial_state, frm, to, idx, step,
                   executing, state_list, new_state, exc, raised, result,
                   max_stage_count, stage, ordinal, out, invoked>>

\* line 83: step.start() is called
StartStep ==
    /\ pc = "try"
    /\ invoked' = Append(invoked, [step |-> step, state_in |-> StateIn(state_list)])
    /\ pc' = "running"
    /\ UNCHANGED <<flow_name, tracker, step_ids, Steps, initial_state, frm, to, idx, step,
                   executing, state_list, step_list, new_state, exc, raised,
                   result, max_stage_count, stage, ordinal, out>>

\* line 83: step.start() returns a State
StepReturns ==
    /\ pc = "running"
    /\ new_state' = StepStart(step, Last(invoked).state_in)
    /\ pc' = "store"
    /\ UNCHANGED <<flow_name, tracker, step_ids, Steps, initial_state, frm, to, idx, step,
                   executing, state_list, step_list, exc, raised, result,
                   max_stage_count, stage, ordinal, out, invoked>>

\* line 83: step.start() raises
StepRaises ==
    /\ pc = "running"
    /\ \E c \in {"MissingInputError", "CalledProcessError"} :
          exc' = [class |-> c, msg |-> step.id]
    /\ pc' = "except"
    /\ UNCHANGED <<flow_name, tracker, step_ids, Steps, initial_state, frm, to, idx, step,
                   executing, state_list, step_list, new_state, raised, result,
                   max_stage_count, stage, ordinal, out, invoked>>

\* variant: lines 84-85 raise the class of line 87
ExceptMissingInput_AsFlowError ==
    /\ pc = "except"
    /\ exc.class = "MissingInputError"
    /\ raised' = [class |-> "FlowError", msg |-> exc.msg]
    /\ pc' = "raised"
    /\ UNCHANGED <<flow_name, tracker, step_ids, Steps, initial_state, frm, to, idx, step,
                   executing, state_list, step_list, new_state, exc, result,
                   max_stage_count, stage, ordinal, out, invoked>>

\* lines 84-85
ExceptMissingInput ==
    /\ pc = "except"
    /\ exc.class = "MissingInputError"
    /\ raised' = [class |-> "FlowException", msg |-> exc.msg]
    /\ pc' = "raised"
    /\ UNCHANGED <<flow_name, tracker, step_ids, Steps, initial_state, frm, to, idx, step,
                   executing, state_list, step_list, new_state, exc, result,
                   max_stage_count, stage, ordinal, out, invoked>>

\* variant: lines 86-87 raise the class of line 85
ExceptCalledProcess_AsFlowException ==
    /\ pc = "except"
    /\ exc.class = "CalledProcessError"
    /\ raised' = [class |-> "FlowException", msg |-> exc.msg]
    /\ pc' = "raised"
    /\ UNCHANGED <<flow_name, tracker, step_ids, Steps, initial_state, frm, to, idx, step,
                   executing, state_list, step_list, new_state, exc, result,
                   max_stage_count, stage, ordinal, out, invoked>>

\* lines 86-87
ExceptCalledProcess ==
    /\ pc = "except"
    /\ exc.class = "CalledProcessError"
    /\ raised' = [class |-> "FlowError", msg |-> exc.msg]
    /\ pc' = "raised"
    /\ UNCHANGED <<flow_name, tracker, step_ids, Steps, initial_state, frm, to, idx, step,
                   executing, state_list, step_list, new_state, exc, result,
                   max_stage_count, stage, ordinal, out, invoked>>

\* variant: line 89 dropped, the returned State is not kept
StoreState_Dropped ==
    /\ pc = "store"
    /\ pc' = "end_stage"
    /\ UNCHANGED <<flow_name, tracker, step_ids, Steps, initial_state, frm, to, idx, step,
                   executing, state_list, step_list, new_state, exc, raised,
                   result, max_stage_count, stage, ordinal, out, invoked>>

\* variant: line 89 inserts the returned State at the front of the list
StoreState_Prepend ==
    /\ pc = "store"
    /\ state_list' = <<new_state>> \o state_list
    /\ pc' = "end_stage"
    /\ UNCHANGED <<flow_name, tracker, step_ids, Steps, initial_state, frm, to, idx, step,
                   executing, step_list, new_state, exc, raised, result,
                   max_stage_count, stage, ordinal, out, invoked>>

\* line 89
StoreState ==
    /\ pc = "store"
    /\ state_list' = Append(state_list, new_state)
    /\ pc' = "end_stage"
    /\ UNCHANGED <<flow_name, tracker, step_ids, Steps, initial_state, frm, to, idx, step,
                   executing, step_list, new_state, exc, raised, result,
                   max_stage_count, stage, ordinal, out, invoked>>

\* line 90
EndStage ==
    /\ pc = "end_stage"
    /\ tracker' = Append(tracker, Call("end_stage", "increment_ordinal"))
    /\ stage' = None
    /\ ordinal' = EndStageOrdinal(ordinal, FALSE)
    /\ pc' = "to"
    /\ UNCHANGED <<flow_name, step_ids, Steps, initial_state, frm, to, idx, step,
                   executing, state_list, step_list, new_state, exc, raised,
                   result, max_stage_count, out, invoked>>

\* lines 92-93
CheckTo ==
    /\ pc = "to"
    /\ executing' = ToReached(to, step.id, executing)
    /\ pc' = "for"
    /\ UNCHANGED <<flow_name, tracker, step_ids, Steps, initial_state, frm, to, idx, step,
                   state_list, step_list, new_state, exc, raised, result,
                   max_stage_count, stage, ordinal, out, invoked>>

\* variant: line 94 dropped
Success_Silent ==
    /\ pc = "success"
    /\ pc' = "return"
    /\ UNCHANGED <<flow_name, tracker, step_ids, Steps, initial_state, frm, to,
                   idx, step, executing, state_list, step_list, new_state, exc,
                   raised, result, max_stage_count, stage, ordinal, out, invoked>>

\* line 94
Success ==
    /\ pc = "success"
    /\ out' = Append(out, Msg("success", "Flow complete.", None))
    /\ pc' = "return"
    /\ UNCHANGED <<flow_name, tracker, step_ids, Steps, initial_state, frm, to, idx, step,
                   executing, state_list, step_list, new_state, exc, raised,
                   result, max_stage_count, stage, ordinal, invoked>>

\* line 95
Return ==
    /\ pc = "return"
    /\ result' = <<state_list, step_list>>
    /\ pc' = "done"
    /\ UNCHANGED <<flow_name, tracker, step_ids, Steps, initial_state, frm, to, idx, step,
                   executing, state_list, step_list, new_state, exc, raised,
                   max_stage_count, stage, ordinal, out, invoked>>

Next ==
    \/ MakeFlow
    \/ MakeTypeError
    \/ RunBegin
    \/ ForNext
    \/ ForExit
    \/ Skip
    \/ AppendStep
    \/ StartStep
    \/ StepReturns
    \/ StepRaises
    \/ ExceptMissingInput
    \/ ExceptCalledProcess
    \/ StoreState
    \/ EndStage
    \/ CheckTo
    \/ Success
    \/ Return

Spec == Init /\ [][Next]_vars

\* ------------------------------------------------------------ vocabulary
N == Len(Steps)

\* run returned (every step it started succeeded)
Returned == pc = "done"

\* run aborted with one of the two flow-level errors
Aborted == pc = "raised" /\ raised.class \in {"FlowException", "FlowError"}

\* the states and executed lists run returned
states == result[1]
executed == result[2]

\* positions of Steps of the instances in a list of instances
Positions(l) == [i \in 1..Len(l) |-> l[i].pos]

\* the sequence a, a+1, ..., b (empty when b < a)
Range(a, b) == [i \in 1..(IF b >= a THEN b - a + 1 ELSE 0) |-> a + i - 1]

\* k is the first position of Steps that bears id
FirstWith(id, k) ==
    /\ k \in 1..N
    /\ Steps[k].id = id
    /\ \A j \in 1..(k - 1) : Steps[j].id # id

TypeOK ==
    /\ pc \in {"make", "ready", "for", "stage", "try", "running", "except",
               "store", "end_stage", "to", "success", "return", "done", "raised"}
    /\ idx \in 0..Len(Steps)
    /\ executing \in BOOLEAN
    /\ Len(Steps) <= MaxSteps

\* the "Skipping step" messages logged so far
IsSkipMsg(m) == m.text = "Skipping step"
Skipped == SelectSeq(out, IsSkipMsg)

\* positions of Steps whose start() has been called, in call order
InvokedPositions == [n \in 1..Len(invoked) |-> invoked[n].step.pos]

\* ---------------------------------------------------------------- C1
\* C1: a run with neither frm nor to set in which every step succeeds
\* returns N+1 states and N executed steps, executed[i] being the instance
\* of the i-th entry of Steps.
C1_UnboundedRunExecutesAll ==
    (Returned /\ frm = None /\ to = None) =>
        /\ Len(states) = N + 1
        /\ Len(executed) = N
        /\ \A i \in 1..N : executed[i].pos = i /\ executed[i].id = Steps[i].id

C1_Witness == Returned /\ frm = None /\ to = None /\ N >= 2

\* ---------------------------------------------------------------- C2
\* C2 as stated: for every k with frm the id of the k-th step and to unset,
\* a run in which every step succeeds executes N-k+1 steps, the first being
\* the k-th.
C2_AsStated ==
    \A k \in 1..N :
        (Returned /\ to = None /\ frm = Steps[k].id) =>
            /\ Len(executed) = N - k + 1
            /\ executed[1].pos = k

\* C2 amended: the same, for k the first position of Steps that bears the
\* id frm (no earlier step has that id).
C2_FromFirstOccurrence ==
    \A k \in 1..N :
        (Returned /\ to = None /\ FirstWith(frm, k)) =>
            /\ Len(executed) = N - k + 1
            /\ executed[1].pos = k
            /\ Positions(executed) = Range(k, N)

C2_Witness ==
    /\ Returned
    /\ to = None
    /\ N >= 3
    /\ FirstWith(frm, 2)

\* ---------------------------------------------------------------- C3
\* C3 as stated: for every k with to the id of the k-th step, whatever frm
\* is, a run in which every step succeeds executes exactly the first k steps.
C3_AsStated ==
    \A k \in 1..N :
        (Returned /\ to = Steps[k].id) =>
            /\ Len(executed) = k
            /\ Positions(executed) = Range(1, k)

\* frm does not keep the run from executing exactly a prefix ending at k:
\* it is unset, or it is the id of the first step and of no step after k
FromKeepsPrefix(k) ==
    \/ frm = None
    \/ /\ N >= 1
       /\ Steps[1].id = frm
       /\ \A j \in (k + 1)..N : Steps[j].id # frm

\* C3 amended: for k the first position of Steps that bears the id to, and
\* frm unset (or the id of the first step and of no step after the k-th), a
\* run in which every step succeeds executes exactly the first k steps.
C3_ToFirstOccurrence ==
    \A k \in 1..N :
        (Returned /\ FirstWith(to, k) /\ FromKeepsPrefix(k)) =>
            /\ Len(executed) = k
            /\ Positions(executed) = Range(1, k)

C3_Witness ==
    /\ Returned
    /\ N >= 3
    /\ FirstWith(to, 2)
    /\ frm = None
    /\ Len(Skipped) >= 1

\* ---------------------------------------------------------------- C4
\* frm is set and is the id of no entry of Steps
FromAbsent == frm # None /\ \A k \in 1..N : Steps[k].id # frm

\* C4: when frm is set to an id that no step of the pipeline bears, then
\* whatever to is, no step is ever recorded or started, the run raises no
\* flow error, and it returns ([initial_state], []).
C4_AbsentFromRunsNothing ==
    (FromAbsent /\ pc \notin {"make", "ready"} /\ raised.class # "TypeError") =>
        /\ step_list = <<>>
        /\ invoked = <<>>
        /\ state_list = <<initial_state>>
        /\ ~Aborted
        /\ Returned => result = << <<initial_state>>, <<>> >>

C4_Witness ==
    /\ Returned
    /\ FromAbsent
    /\ N >= 2
    /\ to # None
    /\ \E k \in 1..N : Steps[k].id = to

\* ---------------------------------------------------------------- C5
\* C5 as stated: with frm the id of the step at position i and to the id of
\* the step at position j, i <= j, and every step succeeding, the steps
\* started are exactly those at positions i..j.
C5_AsStated ==
    \A i \in 1..N : \A j \in i..N :
        (Returned /\ frm = Steps[i].id /\ to = Steps[j].id) =>
            /\ InvokedPositions = Range(i, j)
            /\ Positions(executed) = Range(i, j)

\* i..j is the window the ids frm and to select: i is the first position
\* bearing frm, j the first position from i on bearing to, and no step
\* after j bears frm
Window(i, j) ==
    /\ FirstWith(frm, i)
    /\ j \in i..N
    /\ Steps[j].id = to
    /\ \A m \in i..(j - 1) : Steps[m].id # to
    /\ \A m \in (j + 1)..N : Steps[m].id # frm

\* C5 amended: when i is the first position bearing the id frm, j the first
\* position at or after i bearing the id to, and no step after j bears the
\* id frm, the steps started are exactly those at positions i..j, and every
\* other step is skipped (logged as skipped, not started, not in executed).
C5_WindowIsContiguous ==
    \A i \in 1..N : \A j \in i..N :
        (Returned /\ Window(i, j)) =>
            /\ InvokedPositions = Range(i, j)
            /\ Positions(executed) = Range(i, j)
            /\ Len(Skipped) = N - (j - i + 1)

C5_Witness ==
    /\ Returned
    /\ N >= 3
    /\ \E i \in 2..N : \E j \in (i + 1)..N : Window(i, j)

\* ---------------------------------------------------------------- C6
\* C6: once step.start() has raised MissingInputError, the run is in its
\* handler or has left run with FlowException (never FlowError, never a
\* return); the failing step is the last one started, and no State was
\* appended for it.
C6_MissingInputRaisesFlowException ==
    (exc.class = "MissingInputError") =>
        /\ pc \in {"except", "raised"}
        /\ pc = "raised" => raised.class = "FlowException"
        /\ raised.class # "FlowError"
        /\ result = <<>>
        /\ Last(invoked).step = step
        /\ step.pos = idx
        /\ Len(state_list) = Len(invoked)

C6_Witness ==
    /\ pc = "raised"
    /\ exc.class = "MissingInputError"
    /\ raised.class = "FlowException"
    /\ idx >= 2
    /\ idx < N

\* ---------------------------------------------------------------- C7
\* C7: once step.start() has raised CalledProcessError, the run is in its
\* handler or has left run with FlowError (never FlowException, never a
\* return); the failing step is the last one started, and no State was
\* appended for it.
C7_CalledProcessRaisesFlowError ==
    (exc.class = "CalledProcessError") =>
        /\ pc \in {"except", "raised"}
        /\ pc = "raised" => raised.class = "FlowError"
        /\ raised.class # "FlowException"
        /\ result = <<>>
        /\ Last(invoked).step = step
        /\ step.pos = idx
        /\ Len(state_list) = Len(invoked)

C7_Witness ==
    /\ pc = "raised"
    /\ exc.class = "CalledProcessError"
    /\ raised.class = "FlowError"
    /\ idx >= 2
    /\ idx < N

\* ---------------------------------------------------------------- C8
\* C8 as stated: when the j-th step of a run with neither frm nor to set
\* fails (j = idx, every earlier step having succeeded), executed has
\* length j-1 at the abort and does not contain the failing step.
C8_AsStated ==
    (Aborted /\ frm = None /\ to = None) =>
        /\ Len(step_list) = idx - 1
        /\ \A i \in 1..Len(step_list) : step_list[i] # step

\* C8 amended: at the abort executed has length j: the j-1 steps before
\* the failing one followed by the failing step itself (it is appended
\* before it is started), while states has length j (the initial state and
\* one State per step before the failing one).
C8_AbortKeepsFailingStep ==
    (Aborted /\ frm = None /\ to = None) =>
        /\ Len(step_list) = idx
        /\ Positions(step_list) = Range(1, idx)
        /\ Last(step_list) = step
        /\ Len(state_list) = idx

C8_Witness ==
    /\ Aborted
    /\ frm = None
    /\ to = None
    /\ idx >= 2
    /\ idx < N

\* ---------------------------------------------------------------- C9
\* run has been entered (its locals exist)
InRun == pc \notin {"make", "ready"} /\ raised.class # "TypeError"

\* an executed step has been appended to step_list and its State has not
\* (yet, or ever) been appended to state_list
StepInFlight == pc \in {"try", "running", "except", "store", "raised"}

\* C9 as stated: in every state of a run, len(states) = 1 + len(executed).
C9_AsStated == InRun => Len(state_list) = 1 + Len(step_list)

\* C9 amended: len(states) = 1 + len(executed) at every point of a run
\* except between the append of a step to executed and the append of the
\* State it returns (while the step runs) and after an abort, where
\* len(states) = len(executed).
C9_LengthsOutsideStep ==
    InRun =>
        Len(state_list) = IF StepInFlight THEN Len(step_list)
                          ELSE 1 + Len(step_list)

C9_Witness ==
    /\ pc = "to"
    /\ Len(step_list) >= 2
    /\ Len(Skipped) >= 1

MakeFailed == pc = "raised" /\ raised.class = "TypeError"

\* C11: when step_ids holds an id that is not registered, make raises
\* TypeError naming the first such id (every id before it is registered);
\* no flow class is returned (Steps and the name stay unset), run is never
\* entered, no step is instantiated or started.
C11_MakeFailsAtFirstUnknownId ==
    ((\E i \in 1..Len(step_ids) : step_ids[i] \notin RegisteredIds) /\ pc # "make") =>
        /\ MakeFailed
        /\ \E i \in 1..Len(step_ids) :
              /\ step_ids[i] \notin RegisteredIds
              /\ \A j \in 1..(i - 1) : step_ids[j] \in RegisteredIds
              /\ raised.msg = step_ids[i]
        /\ Steps = <<>>
        /\ flow_name = None
        /\ step = NoStep
        /\ invoked = <<>>
        /\ tracker = <<>>
        /\ out = <<>>
        /\ result = <<>>

C11_Witness ==
    /\ MakeFailed
    /\ Len(step_ids) >= 3
    /\ step_ids[1] \in RegisteredIds
    /\ step_ids[2] \notin RegisteredIds
    /\ step_ids[3] \notin RegisteredIds
    /\ step_ids[3] # step_ids[2]

\* --------------------------------------------------------------- C12
\* make has returned a flow class
MakeReturned == pc # "make" /\ ~MakeFailed

\* C12: when every id of step_ids is registered, the class make returns
\* has as many Steps as step_ids has ids, its i-th entry being the step
\* class registered under step_ids[i] (same order, repeated ids kept), and
\* its name is "Custom Sequential Flow".
C12_MakeKeepsOrder ==
    /\ ((\A i \in 1..Len(step_ids) : step_ids[i] \in RegisteredIds) /\ pc # "make")
          => MakeReturned
    /\ MakeReturned =>
          /\ Len(Steps) = Len(step_ids)
          /\ \A i \in 1..Len(step_ids) :
                /\ Steps[i].id = step_ids[i]
                /\ Steps[i].name = StepName(step_ids[i])
          /\ flow_name = "Custom Sequential Flow"

C12_Witness ==
    /\ MakeReturned
    /\ Len(step_ids) >= 3
    /\ step_ids[1] = step_ids[3]
    /\ step_ids[1] # step_ids[2]
    /\ Len(Steps) = 3

\* --------------------------------------------------------------- C13
\* start_stage and end_stage calls alternate, starting with start_stage,
\* and the k-th stage opened bears the display name of the k-th step
StagesAlternate ==
    \A n \in 1..Len(tracker) :
        IF n % 2 = 1
        THEN /\ tracker[n].fn = "start_stage"
             /\ tracker[n].arg = Steps[(n + 1) \div 2].name
        ELSE tracker[n].fn = "end_stage"

\* the loop is between two iterations, or has been left normally
BetweenIterations == InRun /\ pc \in {"for", "success", "return", "done"}

\* C13 as stated: every stage opened is closed exactly once before the
\* next is opened or the run ends; no stage is open between iterations,
\* after the return, or after an abort.
C13_AsStated ==
    /\ StagesAlternate
    /\ (BetweenIterations \/ Aborted) =>
          /\ stage = None
          /\ Len(tracker) = 2 * idx

\* C13 amended: every stage opened by an iteration that skips its step or
\* whose step returns is closed exactly once before the next stage is
\* opened or the run returns; when the run aborts with a flow error, the
\* stage of the failing step is never closed and stays open.
C13_StagesPairedUnlessAbort ==
    /\ StagesAlternate
    /\ BetweenIterations =>
          /\ stage = None
          /\ Len(tracker) = 2 * idx
    /\ Aborted =>
          /\ stage = step.name
          /\ Len(tracker) = 2 * idx - 1
          /\ Last(tracker) = Call("start_stage", step.name)

C13_Witness ==
    /\ Returned
    /\ N >= 3
    /\ Len(Skipped) >= 1
    /\ Len(executed) >= 1
    /\ Len(tracker) = 2 * N

\* --------------------------------------------------------------- C14
IsAdvance(c) == c = Call("end_stage", "increment_ordinal")
IsNoAdvance(c) == c = Call("end_stage", "no_increment_ordinal")

\* C14: whenever no stage is open during a run, the stage ordinal has been
\* advanced exactly once per step appended to executed and never by a
\* skipped step: the ordinal and the number of advancing end_stage calls
\* equal len(executed), and every skipped step closed its stage with
\* no_increment_ordinal.
C14_OrdinalCountsExecuted ==
    (InRun /\ stage = None) =>
        /\ ordinal = Len(step_list)
        /\ Len(SelectSeq(tracker, IsAdvance)) = Len(step_list)
        /\ Len(SelectSeq(tracker, IsNoAdvance)) = Len(Skipped)
        /\ Len(Skipped) + Len(step_list) = idx

C14_Witness ==
    /\ InRun
    /\ pc = "for"
    /\ stage = None
    /\ Len(Skipped) >= 1
    /\ Len(step_list) >= 2
    /\ ordinal = 2

\* --------------------------------------------------------------- C15
\* C15 as stated: once a step whose id equals to has been started and has
\* returned, no later step of the pipeline is started.
C15_AsStated ==
    \A n \in 1..Len(invoked) : \A m \in 1..(n - 1) :
        invoked[m].step.id # to

\* C15 amended: once a step whose id equals to has been started and has
\* returned, no later step is started unless a step bearing the id frm
\* comes after it: a step started later is that step or comes after it.
C15_StopsUntilFromRecurs ==
    \A n \in 1..Len(invoked) : \A m \in 1..(n - 1) :
        invoked[m].step.id = to =>
            \E p \in (invoked[m].step.pos + 1)..invoked[n].step.pos :
                Steps[p].id = frm

C15_Witness ==
    /\ Returned
    /\ Len(invoked) >= 2
    /\ Last(invoked).step.id = to
    /\ Last(invoked).step.pos < N
    /\ frm = None
    /\ Len(Skipped) >= 1

\* --------------------------------------------------------------- C16
\* C16: during a run state_list starts with initial_state, and it changes
\* only at line 89, by the append of the State the step just started
\* returned; every other statement leaves it as it is.
C16_StatesAppendOnly ==
    /\ [](InRun => (Len(state_list) >= 1 /\ state_list[1] = initial_state))
    /\ [][InRun =>
            IF pc = "store"
            THEN state_list' = Append(state_list,
                     StepStart(Last(invoked).step, Last(invoked).state_in))
            ELSE state_list' = state_list]_vars

C16_Witness ==
    /\ pc = "end_stage"
    /\ Len(state_list) >= 3
    /\ Len(Skipped) >= 1

\* --------------------------------------------------------------- C17
\* C17: during a run the steps of step_list are instances of entries of
\* Steps at strictly increasing positions up to the loop's position, and
\* step_list changes only by the append of the current step at line 81,
\* which is reached only with executing true; an iteration that finds
\* executing false leaves step_list as it is.
C17_ExecutedIsSubsequence ==
    /\ [](InRun =>
            /\ \A i \in 1..Len(step_list) :
                  /\ step_list[i].pos \in 1..idx
                  /\ step_list[i].id = Steps[step_list[i].pos].id
            /\ \A i \in 1..Len(step_list) : \A j \in (i + 1)..Len(step_list) :
                  step_list[i].pos < step_list[j].pos
            /\ (pc = "stage" /\ ~executing) =>
                  \A i \in 1..Len(step_list) : step_list[i].pos # idx)
    /\ [][InRun =>
            \/ step_list' = step_list
            \/ /\ pc = "stage"
               /\ executing
               /\ step_list' = Append(step_list, step)]_vars

C17_Witness ==
    /\ pc = "for"
    /\ idx = N
    /\ N >= 3
    /\ Positions(step_list) = <<1, 3>>

\* --------------------------------------------------------------- C18
IsComplete(m) == m = Msg("success", "Flow complete.", None)

\* C18: "Flow complete." is emitted exactly once by a run that leaves the
\* loop normally, after the last stage has been closed (the whole pipeline
\* iterated, no stage open) and before the result is returned; in every
\* other state of a run, an abort with FlowException or FlowError
\* included, it has not been emitted.
C18_CompletionSignalledOnce ==
    InRun =>
        /\ Len(SelectSeq(out, IsComplete)) =
              IF pc \in {"return", "done"} THEN 1 ELSE 0
        /\ pc \in {"return", "done"} =>
              /\ IsComplete(Last(out))
              /\ idx = N
              /\ stage = None
              /\ Len(tracker) = 2 * N
        /\ pc = "return" => result = <<>>
        /\ pc = "done" => result = <<state_list, step_list>>

C18_Witness ==
    /\ Returned
    /\ N >= 2
    /\ IsComplete(Last(out))
    /\ Len(executed) >= 1

\* --------------------------------------------------------------- C19
\* to is unset, or every step bearing the id to comes before the first
\* step bearing the id frm (frm being set): no executed step bears it
ToNeverMatches ==
    \/ to = None
    \/ \A k \in 1..N :
          Steps[k].id = to => (frm # None /\ \A j \in 1..k : Steps[j].id # frm)

\* the positions a run with to unset executes when every step succeeds:
\* all of them when frm is unset, those from the first step bearing frm on
\* otherwise (none when no step bears it)
FromOnward ==
    IF frm = None THEN Range(1, N)
    ELSE IF \E k \in 1..N : Steps[k].id = frm
         THEN Range(CHOOSE k \in 1..N : FirstWith(frm, k), N)
         ELSE << >>

\* C19: a run whose to is absent from the pipeline, or matches only steps
\* before the first step matching frm, behaves as the run with to unset:
\* in both, the steps started are at every point a prefix of the steps from
\* the first frm match on, and a run that returns has executed all of them
\* and returns initial_state followed by the State of each in turn.
C19_UnmatchedToHasNoEffect ==
    (InRun /\ ToNeverMatches) =>
        /\ Len(invoked) <= Len(FromOnward)
        /\ InvokedPositions = SubSeq(FromOnward, 1, Len(invoked))
        /\ Returned =>
              /\ Positions(executed) = FromOnward
              /\ Len(states) = Len(FromOnward) + 1
              /\ states[1] = initial_state
              /\ \A n \in 1..Len(executed) :
                    states[n + 1] = StepStart(executed[n], states[n])

C19_Witness ==
    /\ Returned
    /\ to # None
    /\ ToNeverMatches
    /\ N >= 3
    /\ Steps[1].id = to
    /\ FirstWith(frm, 2)
    /\ Len(executed) = N - 1

====
